---- MODULE Spec2Model ----
(***************************************************************************)
(* A model of pixivdaily (src/src/lib.rs, src/src/main.rs): the image      *)
(* fitting function resize_image, the per-illustration delivery task       *)
(* send_illust and the coordinator run, with the process exit of main.     *)
(*                                                                         *)
(* Two specifications.  SpecFit follows one call of resize_image from its  *)
(* arguments to its return, error or panic (SpecFitLive is SpecFit with    *)
(* the fairness of its loop).  Spec follows run from the                   *)
(* ranking fetch to the exit of the process, with the get_illust_details   *)
(* and send_illust tasks it spawns taking their steps in any order; there  *)
(* a call of resize_image is one step of its task and only its outcome is  *)
(* kept.                                                                   *)
(*                                                                         *)
(* Numbers.  resize_image computes in u32 and f32.  A u32 is modelled as   *)
(* a pair <<hi, lo>> of 16-bit halves (value hi * 65536 + lo), an f32 as a *)
(* record [m, e] of value m * 2^e with 2^23 <= m < 2^24 (or m = 0), and    *)
(* every f32 operation rounds to nearest, ties to even, as IEEE 754 does.  *)
(* u32 addition wraps in a build without overflow checks and panics in a   *)
(* build with them; both builds are followed.                              *)
(***************************************************************************)
EXTENDS Integers, Sequences, FiniteSets, TLC

(***************************************************************************)
(* Program constants.                                                      *)
(***************************************************************************)
\* lib.rs:36  const MAX_IMAGE_SIZE: usize = 10 * 1024_usize.pow(2)
MAX_IMAGE_SIZE == 10485760

\* lib.rs:281  the literal 10000 of "width + height <= 10000"
DIMENSION_LIMIT == 10000

\* lib.rs:487  for attempt in 0..10
MAX_ATTEMPTS == 10

\* lib.rs:448  if images.len() == 10 { break; }
MAX_GROUP == 10

(***************************************************************************)
(* u32 arithmetic on <<hi, lo>> pairs.                                     *)
(***************************************************************************)
Half == 65536

U32 == (0 .. Half - 1) \X (0 .. Half - 1)

\* n as u32, for an n below 2^31
IntToU32(n) == <<n \div Half, n % Half>>

U32_MAX == <<Half - 1, Half - 1>>

U32Lt(a, b) == a[1] < b[1] \/ (a[1] = b[1] /\ a[2] < b[2])

U32Le(a, b) == a = b \/ U32Lt(a, b)

\* the exact sum a + b exceeds u32::MAX
AddOverflows(a, b) == a[1] + b[1] + ((a[2] + b[2]) \div Half) >= Half

\* a + b modulo 2^32
WrappingAdd(a, b) ==
    <<(a[1] + b[1] + ((a[2] + b[2]) \div Half)) % Half, (a[2] + b[2]) % Half>>

(***************************************************************************)
(* f32 arithmetic.                                                         *)
(***************************************************************************)
F32Zero == [m |-> 0, e |-> 0]

RECURSIVE BitLength(_)
BitLength(n) == IF n = 0 THEN 0 ELSE 1 + BitLength(n \div 2)

\* The f32 nearest to sig * 2^exp (+ a nonzero amount below the last bit of
\* sig when sticky), ties to even.  sig has at least 25 bits when sticky.
RoundF32(sig, exp, sticky) ==
    IF sig = 0 THEN F32Zero
    ELSE LET len == BitLength(sig) IN
         IF len <= 24
         THEN [m |-> sig * 2^(24 - len), e |-> exp - (24 - len)]
         ELSE LET shift == len - 24
                  q     == sig \div 2^shift
                  r     == sig % 2^shift
                  half  == 2^(shift - 1)
                  up    == r > half \/ (r = half /\ (sticky \/ q % 2 = 1))
                  q1    == IF up THEN q + 1 ELSE q
              IN  IF q1 = 2^24
                  THEN [m |-> 2^23, e |-> exp + shift + 1]
                  ELSE [m |-> q1, e |-> exp + shift]

\* n as f32, for a usize n below 2^31
IntToF32(n) == RoundF32(n, 0, FALSE)

\* a as f32, for a u32 a
U32ToF32(a) ==
    IF a[1] < 32768
    THEN RoundF32(a[1] * Half + a[2], 0, FALSE)
    ELSE RoundF32(a[1] * 16384 + (a[2] \div 4), 2, a[2] % 4 # 0)

\* a * b
F32Mul(a, b) ==
    IF a.m = 0 \/ b.m = 0 THEN F32Zero
    ELSE LET a1  == a.m \div 4096
             a0  == a.m % 4096
             b1  == b.m \div 4096
             b0  == b.m % 4096
             mid == a1 * b0 + a0 * b1
             low == a0 * b0 + (mid % 4096) * 4096
             hi  == a1 * b1 + (mid \div 4096) + (low \div 2^24)
             lo  == low % 2^24
         IN  RoundF32(hi * 4 + (lo \div 2^22), a.e + b.e + 22, lo % 2^22 # 0)

\* <<quotient, remainder>> after k more binary digits of the division by d
RECURSIVE DivDigits(_, _, _, _)
DivDigits(q, r, d, k) ==
    IF k = 0 THEN <<q, r>>
    ELSE IF 2 * r >= d
         THEN DivDigits(2 * q + 1, 2 * r - d, d, k - 1)
         ELSE DivDigits(2 * q, 2 * r, d, k - 1)

\* a / b, b nonzero
F32Div(a, b) ==
    IF a.m = 0 THEN F32Zero
    ELSE LET qr == DivDigits(a.m \div b.m, a.m % b.m, b.m, 26)
         IN  RoundF32(qr[1], a.e - b.e - 26, qr[2] # 0)

\* t * t as <<hi, lo>> with t * t = hi * 2^28 + lo, for t < 2^27
Square(t) ==
    LET t1  == t \div 16384
        t0  == t % 16384
        mid == 2 * t1 * t0
        low == (mid % 16384) * 16384 + t0 * t0
    IN  <<t1 * t1 + (mid \div 16384) + (low \div 2^28), low % 2^28>>

\* t * t <= n * 2^28
SquareLe(t, n) == Square(t)[1] < n \/ Square(t) = <<n, 0>>

\* the largest t with t * t <= n * 2^28, found bit by bit from bit b down
RECURSIVE SqrtDigits(_, _, _)
SqrtDigits(t, n, b) ==
    IF b < 0 THEN t
    ELSE IF SquareLe(t + 2^b, n)
         THEN SqrtDigits(t + 2^b, n, b - 1)
         ELSE SqrtDigits(t, n, b - 1)

\* a.sqrt()
F32Sqrt(a) ==
    IF a.m = 0 THEN F32Zero
    ELSE LET n == a.m * 2^(a.e % 2)
             t == SqrtDigits(0, n, 26)
         IN  RoundF32(t, (a.e \div 2) - 14, Square(t) # <<n, 0>>)

\* a as u32: truncation toward zero, saturating at u32::MAX
F32ToU32(a) ==
    IF a.m = 0 \/ a.e <= -24 THEN <<0, 0>>
    ELSE IF a.e >= 9 THEN U32_MAX
    ELSE IF a.e >= 0
         THEN <<a.m \div 2^(16 - a.e), (a.m % 2^(16 - a.e)) * 2^a.e>>
         ELSE IntToU32(a.m \div 2^(0 - a.e))

\* the f32 literals of resize_image
F32_0_8 == [m |-> 13421773, e |-> -24]

F32_10000 == IntToF32(DIMENSION_LIMIT)

(***************************************************************************)
(* State.                                                                  *)
(***************************************************************************)
VARIABLES
    overflow_checks,   \* the build panics on integer overflow (debug profile)
    \* one call of resize_image
    fit_pc,            \* where the call is
    image_bytes,       \* the argument image_bytes
    original_width,    \* the argument original_width
    original_height,   \* the argument original_height
    target_width,      \* let mut target_width
    target_height,     \* let mut target_height
    resized,           \* the (width, height) pairs passed to resize so far
    rounds,            \* how many times the loop body has run
    fit_result,        \* what the call returned
    \* run and main
    run_pc,            \* where run is
    run_result,        \* what run returned, and the step that failed
    exited,            \* main has called process::exit
    exit_status,       \* with this status
    ranking,           \* the ids get_pixiv_daily_ranking returned
    details,           \* get_illust_tasks: the state of every spawned task
    announced,         \* the date message has been sent
    pinned,            \* and pinned
    reported,          \* the tasks whose failure run has logged
    \* the send_illust task of every ranked id
    task_pc,           \* where the task is
    illust,            \* the argument illust
    images,            \* images.len()
    captioned,         \* the positions in images of the items with a caption
    attempt,           \* the loop variable attempt
    result,            \* let mut result
    task_result,       \* what the task's JoinHandle yields
    sends,             \* how many times the task has called send_media_group
    delivered,         \* how many of these calls succeeded
    media,             \* how many media items its last call handed over
    waited             \* how long the task slept before its last call

fitVars == <<fit_pc, image_bytes, original_width, original_height,
             target_width, target_height, resized, rounds, fit_result>>

runVars == <<run_pc, run_result, exited, exit_status, ranking, details,
             announced, pinned, reported>>

taskVars == <<task_pc, illust, images, captioned, attempt, result,
              task_result, sends, delivered, media, waited>>

pipeVars == <<runVars, taskVars>>

vars == <<overflow_checks, fitVars, pipeVars>>

(***************************************************************************)
(* resize_image (lib.rs:256-326).                                          *)
(*                                                                         *)
(* A byte vector is modelled by its length, the format it decodes as and   *)
(* where it came from: two vectors are byte-identical iff the records are  *)
(* equal.  "none" is the format of bytes that no decoder accepts.          *)
(***************************************************************************)
NoBytes == [len |-> 0, format |-> "none", origin |-> "nothing"]

Bytes(len, format, origin) == [len |-> len, format |-> format, origin |-> origin]

\* lib.rs:270  (MAX_IMAGE_SIZE as f32 / image_bytes.len() as f32).sqrt()
guessed_ratio(len) == F32Sqrt(F32Div(IntToF32(MAX_IMAGE_SIZE), IntToF32(len)))

\* lib.rs:271-272  (original as f32 * guessed_ratio) as u32
Guess(original, len) == F32ToU32(F32Mul(U32ToF32(original), guessed_ratio(len)))

\* lib.rs:282  10000.0 / (target_width + target_height) as f32
target_ratio(sum) == F32Div(F32_10000, U32ToF32(sum))

\* lib.rs:283-284  (target as f32 * target_ratio).floor() as u32
Rescale(target, sum) == F32ToU32(F32Mul(U32ToF32(target), target_ratio(sum)))

\* Shrink with the factor 0.8 left out
ShrinkKeeps(target) == target

\* lib.rs:323-324  (target as f32 * 0.8) as u32
Shrink(target) == F32ToU32(F32Mul(U32ToF32(target), F32_0_8))

\* lib.rs:281-291  the targets after the width + height check, the sum
\* being the wrapped one of a build without overflow checks
LimitDimensions(w, h) ==
    LET sum == WrappingAdd(w, h) IN
    IF U32Lt(IntToU32(DIMENSION_LIMIT), sum)
    THEN <<Rescale(w, sum), Rescale(h, sum)>>
    ELSE <<w, h>>

\* the most passes of the loop body that are followed
MaxRounds == 80

\* lib.rs:298, 302  resize keeps the aspect ratio of the image: what it
\* returns fits in w x h pixels, and is a single pixel when w or h is 0.  A
\* PNG holds at most 8 bytes a pixel, a filter byte a row and under 1024
\* bytes of chunk and stream framing: an encoding of MAX_IMAGE_SIZE bytes
\* or more needs that many pixels.
PngMayReachCeiling(w, h) ==
    LET need == (MAX_IMAGE_SIZE - 1024) \div 9 IN
    IF w = <<0, 0>> \/ h = <<0, 0>> THEN FALSE
    ELSE IF U32Le(IntToU32(need), h) THEN TRUE
    ELSE U32Le(IntToU32((need + h[2] + h[1] * Half - 1) \div (h[2] + h[1] * Half)), w)

\* lib.rs:301-307  the lengths png_bytes can have for an image of w x h
EncodedLens(w, h) ==
    {4096, MAX_IMAGE_SIZE - 1} \cup
    (IF PngMayReachCeiling(w, h) THEN {MAX_IMAGE_SIZE, MAX_IMAGE_SIZE + 1} ELSE {})

\* SmallEnough with < for <=
SmallEnoughStrict(bytes) == bytes.len < MAX_IMAGE_SIZE

\* lib.rs:263  image_bytes.len() <= MAX_IMAGE_SIZE
SmallEnough(bytes) == bytes.len <= MAX_IMAGE_SIZE

\* lib.rs:262-265  the input is small enough: it is returned as it is
ReturnOriginal ==
    /\ fit_pc = "call"
    /\ SmallEnough(image_bytes)
    /\ fit_result' = image_bytes
    /\ fit_pc' = "returned"
    /\ UNCHANGED <<pipeVars, overflow_checks, image_bytes, original_width, original_height,
                   target_width, target_height, resized, rounds>>

\* lib.rs:281  target_width + target_height overflows u32 in a build with
\* overflow checks: the task panics
GuessOverflow ==
    /\ fit_pc = "call"
    /\ ~ SmallEnough(image_bytes)
    /\ overflow_checks
    /\ AddOverflows(Guess(original_width, image_bytes.len),
                    Guess(original_height, image_bytes.len))
    /\ target_width' = Guess(original_width, image_bytes.len)
    /\ target_height' = Guess(original_height, image_bytes.len)
    /\ fit_pc' = "panicked"
    /\ UNCHANGED <<pipeVars, overflow_checks, image_bytes, original_width, original_height,
                   resized, rounds, fit_result>>

\* lib.rs:266-294  the first guess of the targets, the width + height
\* limit, and the decoding of the input
GuessAndLoad ==
    /\ fit_pc = "call"
    /\ ~ SmallEnough(image_bytes)
    /\ LET w == Guess(original_width, image_bytes.len)
           h == Guess(original_height, image_bytes.len)
       IN  /\ ~ (overflow_checks /\ AddOverflows(w, h))
           /\ target_width' = LimitDimensions(w, h)[1]
           /\ target_height' = LimitDimensions(w, h)[2]
    /\ fit_pc' = IF image_bytes.format = "none" THEN "failed" ELSE "loop"
    /\ UNCHANGED <<pipeVars, overflow_checks, image_bytes, original_width, original_height,
                   resized, rounds, fit_result>>

\* RoundReturns without the comparison of lib.rs:310
RoundReturnsUnmeasured ==
    /\ fit_pc = "loop"
    /\ \E n \in EncodedLens(target_width, target_height) :
         fit_result' = Bytes(n, "png", "encoder")
    /\ resized' = resized \cup {<<target_width, target_height>>}
    /\ rounds' = rounds + 1
    /\ fit_pc' = "returned"
    /\ UNCHANGED <<pipeVars, overflow_checks, image_bytes, original_width, original_height,
                   target_width, target_height>>

\* lib.rs:296-316  a round that ends the loop: resize, encode, and the
\* encoding is below the ceiling
RoundReturns ==
    /\ fit_pc = "loop"
    /\ \E n \in EncodedLens(target_width, target_height) :
         /\ n < MAX_IMAGE_SIZE
         /\ fit_result' = Bytes(n, "png", "encoder")
    /\ resized' = resized \cup {<<target_width, target_height>>}
    /\ rounds' = rounds + 1
    /\ fit_pc' = "returned"
    /\ UNCHANGED <<pipeVars, overflow_checks, image_bytes, original_width, original_height,
                   target_width, target_height>>

\* RoundShrinks without the line lib.rs:324: the width alone is shrunk
RoundShrinksWidthOnly ==
    /\ fit_pc = "loop"
    /\ rounds < MaxRounds
    /\ \E n \in EncodedLens(target_width, target_height) :
         ~ (n < MAX_IMAGE_SIZE)
    /\ resized' = resized \cup {<<target_width, target_height>>}
    /\ rounds' = rounds + 1
    /\ target_width' = Shrink(target_width)
    /\ UNCHANGED <<pipeVars, overflow_checks, fit_pc, image_bytes, original_width,
                   original_height, target_height, fit_result>>

\* lib.rs:296-324  a round that does not: resize, encode, and both targets
\* are multiplied by 0.8
RoundShrinks ==
    /\ fit_pc = "loop"
    /\ rounds < MaxRounds
    /\ \E n \in EncodedLens(target_width, target_height) :
         ~ (n < MAX_IMAGE_SIZE)
    /\ resized' = resized \cup {<<target_width, target_height>>}
    /\ rounds' = rounds + 1
    /\ target_width' = Shrink(target_width)
    /\ target_height' = Shrink(target_height)
    /\ UNCHANGED <<pipeVars, overflow_checks, fit_pc, image_bytes, original_width,
                   original_height, fit_result>>

\* lib.rs:302  write_to fails: the error is returned
EncodeFails ==
    /\ fit_pc = "loop"
    /\ resized' = resized \cup {<<target_width, target_height>>}
    /\ rounds' = rounds + 1
    /\ fit_pc' = "failed"
    /\ UNCHANGED <<pipeVars, overflow_checks, image_bytes, original_width, original_height,
                   target_width, target_height, fit_result>>

(***************************************************************************)
(* Bounds of the pipeline, and the records the detail endpoint serves.     *)
(***************************************************************************)
\* the most ids the ranking holds
MaxRanking == 2

\* the most pages a manga has: one more than a media group holds
MaxPages == 11

Ids == 1 .. MaxRanking

Min(a, b) == IF a < b THEN a ELSE b

\* lib.rs:54-71  what send_illust reads of an Illust: manga_a and
\* illust_images are both present (manga), manga_a.len() (pages),
\* illust_images.len() (sizes), and url is present
Illust(manga, pages, sizes, url) ==
    [manga |-> manga, pages |-> pages, sizes |-> sizes, url |-> url]

NoIllust == Illust(FALSE, 0, 0, FALSE)

\* a single image with and without url, a manga without pages, a manga of
\* MaxPages pages, and a manga whose second page has no entry in
\* illust_images
Illusts ==
    {Illust(FALSE, 0, 0, TRUE), Illust(FALSE, 0, 0, FALSE)} \cup
    {Illust(TRUE, p, p, FALSE) : p \in {0, MaxPages}} \cup
    {Illust(TRUE, 2, 1, FALSE)}

\* a Result, an Option<Result> or the outcome of a JoinHandle: the error
\* of a send attempt is told from the others by the attempt that got it
Outcome(tag, error, at, secs) ==
    [tag |-> tag, error |-> error, at |-> at, secs |-> secs]

None == Outcome("None", "", 0, 0)

Ok == Outcome("Ok", "", 0, 0)

Err(error, at, secs) == Outcome("Err", error, at, secs)

Panic == Outcome("Panic", "", 0, 0)

\* RequestError::RetryAfter carries the seconds to wait
RetryAfterSeconds == {5}

(***************************************************************************)
(* send_illust (lib.rs:374-526), the task of ranked id i.                  *)
(***************************************************************************)
\* lib.rs:415-451, 465-479  the images the loop of send_illust collects
Wanted(ill) == IF ill.manga THEN Min(ill.pages, MAX_GROUP) ELSE 1

\* lib.rs:410-415  a manga without pages has nothing to collect
StartPc(ill) == IF Wanted(ill) = 0 THEN "send" ELSE "prepare"

\* the task ends: its JoinHandle yields r
Finish(i, r) ==
    /\ task_pc' = [task_pc EXCEPT ![i] = "done"]
    /\ task_result' = [task_result EXCEPT ![i] = r]

\* lib.rs:458-463  a single image without url: the task returns an error
NoUrl(i) ==
    /\ ~ exited
    /\ task_pc[i] = "prepare"
    /\ ~ illust[i].manga
    /\ ~ illust[i].url
    /\ Finish(i, Err("no url", 0, 0))
    /\ UNCHANGED <<overflow_checks, fitVars, runVars, illust, images, captioned,
                   attempt, result, sends, delivered, media, waited>>

\* lib.rs:421-432, 465-472  what the download, the parsing of the declared
\* width and height and resize_image can do for the next image
PrepareOutcomes(i) ==
    IF illust[i].manga /\ images[i] >= illust[i].sizes
    THEN {"download", "panic"}
    ELSE {"download", "parse", "resize", "ok"} \cup
         (IF overflow_checks THEN {"panic"} ELSE {})

\* PrepareImage with the errors of lib.rs:421-432 leaving the loop (break)
\* where the code returns them (?)
PrepareImageBreaks(i) ==
    /\ ~ exited
    /\ task_pc[i] = "prepare"
    /\ illust[i].manga \/ illust[i].url
    /\ \E o \in PrepareOutcomes(i) :
         CASE o = "ok" ->
                /\ images' = [images EXCEPT ![i] = @ + 1]
                /\ captioned' = [captioned EXCEPT ![i] =
                       IF images[i] = 0 \/ ~ illust[i].manga
                       THEN @ \cup {images[i] + 1} ELSE @]
                /\ task_pc' = [task_pc EXCEPT ![i] =
                       IF images[i] + 1 = Wanted(illust[i]) THEN "send" ELSE "prepare"]
                /\ UNCHANGED task_result
           [] o = "panic" ->
                /\ Finish(i, Panic)
                /\ images' = [images EXCEPT ![i] = 0]
                /\ captioned' = [captioned EXCEPT ![i] = {}]
           [] OTHER ->
                /\ task_pc' = [task_pc EXCEPT ![i] = "send"]
                /\ UNCHANGED <<images, captioned, task_result>>
    /\ UNCHANGED <<overflow_checks, fitVars, runVars, illust, attempt, result,
                   sends, delivered, media, waited>>

\* lib.rs:415-451, 465-479  one image is downloaded, resized and pushed,
\* with the caption if it is the first of a manga (lib.rs:435-442) or the
\* single image (lib.rs:475-476); an error returns from the task and a
\* panic ends it, and either drops the images collected so far
PrepareImage(i) ==
    /\ ~ exited
    /\ task_pc[i] = "prepare"
    /\ illust[i].manga \/ illust[i].url
    /\ \E o \in PrepareOutcomes(i) :
         CASE o = "ok" ->
                /\ images' = [images EXCEPT ![i] = @ + 1]
                /\ captioned' = [captioned EXCEPT ![i] =
                       IF images[i] = 0 \/ ~ illust[i].manga
                       THEN @ \cup {images[i] + 1} ELSE @]
                /\ task_pc' = [task_pc EXCEPT ![i] =
                       IF images[i] + 1 = Wanted(illust[i]) THEN "send" ELSE "prepare"]
                /\ UNCHANGED task_result
           [] o = "panic" ->
                /\ Finish(i, Panic)
                /\ images' = [images EXCEPT ![i] = 0]
                /\ captioned' = [captioned EXCEPT ![i] = {}]
           [] OTHER ->
                /\ Finish(i, Err(o, 0, 0))
                /\ images' = [images EXCEPT ![i] = 0]
                /\ captioned' = [captioned EXCEPT ![i] = {}]
    /\ UNCHANGED <<overflow_checks, fitVars, runVars, illust, attempt, result,
                   sends, delivered, media, waited>>

\* what one call of send_media_group can return
SendOutcomes ==
    {Ok} \cup {Err("generic", 0, 0)} \cup
    {Err("retry after", 0, d) : d \in RetryAfterSeconds}

\* SendAttempt without the break of lib.rs:515: the loop ends after the
\* last round only
SendAttemptNoBreak(i) ==
    /\ ~ exited
    /\ task_pc[i] = "send"
    /\ \E o \in SendOutcomes :
         LET r == IF o.tag = "Ok" THEN Ok ELSE Err(o.error, attempt[i], o.secs) IN
         /\ result' = [result EXCEPT ![i] = r]
         /\ delivered' = [delivered EXCEPT ![i] = IF o.tag = "Ok" THEN @ + 1 ELSE @]
         /\ IF attempt[i] + 1 = MAX_ATTEMPTS
            THEN /\ Finish(i, r)
                 /\ UNCHANGED attempt
            ELSE /\ attempt' = [attempt EXCEPT ![i] = @ + 1]
                 /\ UNCHANGED <<task_pc, task_result>>
    /\ sends' = [sends EXCEPT ![i] = @ + 1]
    /\ media' = [media EXCEPT ![i] = images[i]]
    /\ waited' = [waited EXCEPT ![i] = 0]
    /\ UNCHANGED <<overflow_checks, fitVars, runVars, illust, images, captioned>>

\* SendAttempt with the range 0..=10 for the 0..10 of lib.rs:487
SendAttemptInclusive(i) ==
    /\ ~ exited
    /\ task_pc[i] = "send"
    /\ \E o \in SendOutcomes :
         LET r == IF o.tag = "Ok" THEN Ok ELSE Err(o.error, attempt[i], o.secs) IN
         /\ result' = [result EXCEPT ![i] = r]
         /\ delivered' = [delivered EXCEPT ![i] = IF o.tag = "Ok" THEN @ + 1 ELSE @]
         /\ IF o.tag = "Ok" \/ attempt[i] = MAX_ATTEMPTS
            THEN /\ Finish(i, r)
                 /\ UNCHANGED attempt
            ELSE /\ attempt' = [attempt EXCEPT ![i] = @ + 1]
                 /\ UNCHANGED <<task_pc, task_result>>
    /\ sends' = [sends EXCEPT ![i] = @ + 1]
    /\ media' = [media EXCEPT ![i] = images[i]]
    /\ waited' = [waited EXCEPT ![i] = 0]
    /\ UNCHANGED <<overflow_checks, fitVars, runVars, illust, images, captioned>>

\* SendAttempt with a rate-limit error not counted as an attempt: the
\* call is made again in the same round
SendAttemptRetryFree(i) ==
    /\ ~ exited
    /\ task_pc[i] = "send"
    /\ \E o \in SendOutcomes :
         LET r == IF o.tag = "Ok" THEN Ok ELSE Err(o.error, attempt[i], o.secs) IN
         /\ result' = [result EXCEPT ![i] = r]
         /\ delivered' = [delivered EXCEPT ![i] = IF o.tag = "Ok" THEN @ + 1 ELSE @]
         /\ IF o.error = "retry after"
            THEN UNCHANGED <<attempt, task_pc, task_result>>
            ELSE IF o.tag = "Ok" \/ attempt[i] + 1 = MAX_ATTEMPTS
            THEN /\ Finish(i, r)
                 /\ UNCHANGED attempt
            ELSE /\ attempt' = [attempt EXCEPT ![i] = @ + 1]
                 /\ UNCHANGED <<task_pc, task_result>>
    /\ sends' = [sends EXCEPT ![i] = @ + 1]
    /\ media' = [media EXCEPT ![i] = images[i]]
    /\ waited' = [waited EXCEPT ![i] = 0]
    /\ UNCHANGED <<overflow_checks, fitVars, runVars, illust, images, captioned>>

\* lib.rs:487-525  one round of the retry loop: the call, and on success
\* the break and the return; after the last round the last error is returned
SendAttempt(i) ==
    /\ ~ exited
    /\ task_pc[i] = "send"
    /\ \E o \in SendOutcomes :
         LET r == IF o.tag = "Ok" THEN Ok ELSE Err(o.error, attempt[i], o.secs) IN
         /\ result' = [result EXCEPT ![i] = r]
         /\ delivered' = [delivered EXCEPT ![i] = IF o.tag = "Ok" THEN @ + 1 ELSE @]
         /\ IF o.tag = "Ok" \/ attempt[i] + 1 = MAX_ATTEMPTS
            THEN /\ Finish(i, r)
                 /\ UNCHANGED attempt
            ELSE /\ attempt' = [attempt EXCEPT ![i] = @ + 1]
                 /\ UNCHANGED <<task_pc, task_result>>
    /\ sends' = [sends EXCEPT ![i] = @ + 1]
    /\ media' = [media EXCEPT ![i] = images[i]]
    /\ waited' = [waited EXCEPT ![i] = 0]
    /\ UNCHANGED <<overflow_checks, fitVars, runVars, illust, images, captioned>>

(***************************************************************************)
(* get_illust_details (lib.rs:198-211), the task spawned for ranked id i.  *)
(***************************************************************************)
DetailsOk(i) ==
    /\ ~ exited
    /\ details[i] = "running"
    /\ details' = [details EXCEPT ![i] = "ok"]
    /\ \E ill \in Illusts : illust' = [illust EXCEPT ![i] = ill]
    /\ UNCHANGED <<overflow_checks, fitVars, run_pc, run_result, exited,
                   exit_status, ranking, announced, pinned, reported, task_pc,
                   images, captioned, attempt, result, task_result, sends,
                   delivered, media, waited>>

DetailsErr(i) ==
    /\ ~ exited
    /\ details[i] = "running"
    /\ details' = [details EXCEPT ![i] = "err"]
    /\ UNCHANGED <<overflow_checks, fitVars, run_pc, run_result, exited,
                   exit_status, ranking, announced, pinned, reported, taskVars>>

(***************************************************************************)
(* run (lib.rs:537-589) and main (main.rs:95-110).                         *)
(***************************************************************************)
\* run returns Err from the named step
Abort(step) ==
    /\ run_pc' = "returned"
    /\ run_result' = Err(step, 0, 0)

\* lib.rs:554-558  the ranking is fetched and one get_illust_details task
\* is spawned for every id of it
FetchRanking ==
    /\ run_pc = "ranking"
    /\ \E n \in 0 .. MaxRanking :
         /\ ranking' = [k \in 1 .. n |-> k]
         /\ details' = [i \in Ids |-> IF i <= n THEN "running" ELSE "unspawned"]
    /\ run_pc' = "send date"
    /\ UNCHANGED <<overflow_checks, fitVars, run_result, exited, exit_status,
                   announced, pinned, reported, taskVars>>

\* lib.rs:554  get_pixiv_daily_ranking fails: run returns the error
FetchRankingFails ==
    /\ run_pc = "ranking"
    /\ Abort("ranking")
    /\ UNCHANGED <<overflow_checks, fitVars, exited, exit_status, ranking,
                   details, announced, pinned, reported, taskVars>>

\* lib.rs:561  the date message is sent
SendDate ==
    /\ run_pc = "send date"
    /\ announced' = TRUE
    /\ run_pc' = "pin"
    /\ UNCHANGED <<overflow_checks, fitVars, run_result, exited, exit_status,
                   ranking, details, pinned, reported, taskVars>>

\* lib.rs:561  send_message fails: run returns the error
SendDateFails ==
    /\ run_pc = "send date"
    /\ Abort("send date")
    /\ UNCHANGED <<overflow_checks, fitVars, exited, exit_status, ranking,
                   details, announced, pinned, reported, taskVars>>

\* lib.rs:562-564  the date message is pinned
Pin ==
    /\ run_pc = "pin"
    /\ pinned' = TRUE
    /\ run_pc' = "join details"
    /\ UNCHANGED <<overflow_checks, fitVars, run_result, exited, exit_status,
                   ranking, details, announced, reported, taskVars>>

\* PinFails with the error of lib.rs:564 dropped where the code returns it
PinFailsIgnored ==
    /\ run_pc = "pin"
    /\ run_pc' = "join details"
    /\ UNCHANGED <<overflow_checks, fitVars, run_result, exited, exit_status,
                   ranking, details, announced, pinned, reported, taskVars>>

\* lib.rs:562-564  pin_chat_message fails: run returns the error
PinFails ==
    /\ run_pc = "pin"
    /\ Abort("pin")
    /\ UNCHANGED <<overflow_checks, fitVars, exited, exit_status, ranking,
                   details, announced, pinned, reported, taskVars>>

\* the ranked ids, and the first of them whose details task failed (or
\* one past the last id)
Ranked == 1 .. Len(ranking)

FirstErr ==
    IF \E i \in Ranked : details[i] = "err"
    THEN CHOOSE i \in Ranked :
           details[i] = "err" /\ \A j \in 1 .. i - 1 : details[j] # "err"
    ELSE Len(ranking) + 1

\* lib.rs:567-574  every details task has ended; in ranking order a
\* send_illust task is spawned for each, and the first error (illust??)
\* returns from run
JoinDetails ==
    /\ run_pc = "join details"
    /\ \A i \in Ranked : details[i] # "running"
    /\ task_pc' = [i \in Ids |-> IF i < FirstErr /\ i \in Ranked
                                 THEN StartPc(illust[i]) ELSE task_pc[i]]
    /\ IF FirstErr \in Ranked
       THEN Abort("details")
       ELSE /\ run_pc' = "join sends"
            /\ UNCHANGED run_result
    /\ UNCHANGED <<overflow_checks, fitVars, exited, exit_status, ranking,
                   details, announced, pinned, reported, illust, images,
                   captioned, attempt, result, task_result, sends, delivered,
                   media, waited>>

\* the first ranked id whose send_illust task panicked (or one past the
\* last id)
FirstPanic ==
    IF \E i \in Ranked : task_result[i] = Panic
    THEN CHOOSE i \in Ranked :
           task_result[i] = Panic /\ \A j \in 1 .. i - 1 : task_result[j] # Panic
    ELSE Len(ranking) + 1

\* JoinSends with the error of a task returned from run (result??) where
\* the code logs it
JoinSendsPropagates ==
    /\ run_pc = "join sends"
    /\ \A i \in Ranked : task_pc[i] = "done"
    /\ reported' = {}
    /\ run_pc' = "returned"
    /\ run_result' = IF \E i \in Ranked : task_result[i] # Ok
                      THEN Err("join", 0, 0) ELSE Ok
    /\ UNCHANGED <<overflow_checks, fitVars, exited, exit_status, ranking,
                   details, announced, pinned, taskVars>>

\* lib.rs:577-588  every send_illust task has ended; in ranking order the
\* error of each is logged, and a JoinError (result?) returns from run
JoinSends ==
    /\ run_pc = "join sends"
    /\ \A i \in Ranked : task_pc[i] = "done"
    /\ reported' = {i \in Ranked : i < FirstPanic /\ task_result[i].tag = "Err"}
    /\ run_pc' = "returned"
    /\ run_result' = IF FirstPanic \in Ranked THEN Err("join", 0, 0) ELSE Ok
    /\ UNCHANGED <<overflow_checks, fitVars, exited, exit_status, ranking,
                   details, announced, pinned, taskVars>>

\* main.rs:102-108  process::exit with 0 if run returned Ok and 1 if not;
\* the tasks that still run end with the process
Exit ==
    /\ run_pc = "returned"
    /\ ~ exited
    /\ exited' = TRUE
    /\ exit_status' = IF run_result = Ok THEN 0 ELSE 1
    /\ UNCHANGED <<overflow_checks, fitVars, run_pc, run_result, ranking, details,
                   announced, pinned, reported, taskVars>>

(***************************************************************************)
(* The inputs resize_image is called with.                                 *)
(***************************************************************************)
InputLens ==
    {4096, MAX_IMAGE_SIZE - 1, MAX_IMAGE_SIZE, MAX_IMAGE_SIZE + 1,
     12582912, 41943040}

InputFormats == {"jpeg", "png", "none"}

DeclaredDimensions ==
    {<<0, 0>>, <<0, 1>>, <<0, 2000>>, <<0, 3000>>, <<0, 9000>>, <<0, 20000>>,
     <<1, 34464>>, <<32768, 0>>, U32_MAX}

\* the state of the pipeline before run is called
InitPipe ==
    /\ run_pc = "ranking"
    /\ run_result = None
    /\ exited = FALSE
    /\ exit_status = 0
    /\ ranking = <<>>
    /\ details = [i \in Ids |-> "unspawned"]
    /\ announced = FALSE
    /\ pinned = FALSE
    /\ reported = {}
    /\ task_pc = [i \in Ids |-> "unspawned"]
    /\ illust = [i \in Ids |-> NoIllust]
    /\ images = [i \in Ids |-> 0]
    /\ captioned = [i \in Ids |-> {}]
    /\ attempt = [i \in Ids |-> 0]
    /\ result = [i \in Ids |-> None]
    /\ task_result = [i \in Ids |-> None]
    /\ sends = [i \in Ids |-> 0]
    /\ delivered = [i \in Ids |-> 0]
    /\ media = [i \in Ids |-> 0]
    /\ waited = [i \in Ids |-> 0]

\* no call of resize_image is followed
IdleFit ==
    /\ fit_pc = "idle"
    /\ image_bytes = NoBytes
    /\ original_width = <<0, 0>>
    /\ original_height = <<0, 0>>
    /\ target_width = <<0, 0>>
    /\ target_height = <<0, 0>>
    /\ resized = {}
    /\ rounds = 0
    /\ fit_result = NoBytes

InitFit ==
    /\ overflow_checks \in BOOLEAN
    /\ fit_pc = "call"
    /\ \E len \in InputLens, format \in InputFormats :
         image_bytes = Bytes(len, format, "download")
    /\ original_width \in DeclaredDimensions
    /\ original_height \in DeclaredDimensions
    /\ target_width = <<0, 0>>
    /\ target_height = <<0, 0>>
    /\ resized = {}
    /\ rounds = 0
    /\ fit_result = NoBytes
    /\ InitPipe

NextFit ==
    \/ ReturnOriginal
    \/ GuessOverflow
    \/ GuessAndLoad
    \/ RoundReturns
    \/ RoundShrinks
    \/ EncodeFails

SpecFit == InitFit /\ [][NextFit]_vars

\* lib.rs:296-325  one pass of the loop body
Round ==
    \/ RoundReturns
    \/ RoundShrinks
    \/ EncodeFails

\* the loop has no await in it: once entered, its passes keep being taken
SpecFitLive == InitFit /\ [][NextFit]_vars /\ WF_vars(Round)

(***************************************************************************)
(* The pipeline: run, the tasks it spawns, and main.                       *)
(***************************************************************************)
Init ==
    /\ overflow_checks \in BOOLEAN
    /\ IdleFit
    /\ InitPipe

Next ==
    \/ FetchRanking
    \/ FetchRankingFails
    \/ SendDate
    \/ SendDateFails
    \/ Pin
    \/ PinFails
    \/ JoinDetails
    \/ JoinSends
    \/ Exit
    \/ \E i \in Ids : DetailsOk(i)
    \/ \E i \in Ids : DetailsErr(i)
    \/ \E i \in Ids : NoUrl(i)
    \/ \E i \in Ids : PrepareImage(i)
    \/ \E i \in Ids : SendAttempt(i)

Spec == Init /\ [][Next]_vars

(***************************************************************************)
(* resize_image: the claims about one call (SpecFit).                      *)
(***************************************************************************)
\* C1: whenever resize_image returns successfully, on the path that
\* returns the input as on the path that returns an encoding, the bytes
\* it returns are at most MAX_IMAGE_SIZE long.
C1_FitCeiling ==
    fit_pc = "returned" => fit_result.len <= MAX_IMAGE_SIZE

\* an oversized input came back as an encoding made after a shrink
C1_Witness ==
    /\ fit_pc = "returned"
    /\ image_bytes.len > MAX_IMAGE_SIZE
    /\ fit_result.origin = "encoder"
    /\ Cardinality(resized) >= 2

\* C2: an input of at most MAX_IMAGE_SIZE bytes is returned as it is,
\* byte for byte, whatever the declared width and height and whether the
\* bytes decode or not, and nothing is resized or encoded on the way.
C2_NoOp ==
    (fit_pc # "call" /\ image_bytes.len <= MAX_IMAGE_SIZE) =>
        /\ fit_pc = "returned"
        /\ fit_result = image_bytes
        /\ resized = {}

\* bytes of exactly MAX_IMAGE_SIZE that no decoder accepts, declared with
\* the largest width, came back
C2_Witness ==
    /\ fit_pc = "returned"
    /\ image_bytes.len = MAX_IMAGE_SIZE
    /\ image_bytes.format = "none"
    /\ original_width = U32_MAX
    /\ fit_result = image_bytes

\* the exact sum of the pair d is at most DIMENSION_LIMIT
WithinLimit(d) ==
    /\ ~ AddOverflows(d[1], d[2])
    /\ U32Le(WrappingAdd(d[1], d[2]), IntToU32(DIMENSION_LIMIT))

\* C10: the (width, height) of every resize of an oversized input, the
\* first one and the later ones, has width + height <= DIMENSION_LIMIT,
\* for every declared width and height.
C10_DimensionCeiling ==
    \A d \in resized : WithinLimit(d)

\* C11: from one round of the loop to the next neither target grows, and
\* when the encoding of a round is not below MAX_IMAGE_SIZE, so that
\* another round follows, the width and the height of that round are both
\* strictly smaller than the ones of this round.
C11_MonotonicShrink ==
    [][(fit_pc = "loop" /\ fit_pc' = "loop") =>
          /\ U32Le(target_width', target_width)
          /\ U32Le(target_height', target_height)
          /\ rounds' # rounds =>
                 /\ U32Lt(target_width', target_width)
                 /\ U32Lt(target_height', target_height)]_vars

\* a third round is about to run on targets that are both positive and
\* both below the ones of an earlier round
C11_Witness ==
    /\ fit_pc = "loop"
    /\ rounds = 2
    /\ target_width # <<0, 0>>
    /\ target_height # <<0, 0>>
    /\ \E d \in resized :
         U32Lt(target_width, d[1]) /\ U32Lt(target_height, d[2])

\* C12: the loop of resize_image, once entered on a decoded oversized
\* input, ends with the bytes or with an error: it does not run forever,
\* given that an encoding of MAX_IMAGE_SIZE bytes needs the pixels to hold
\* them; and it ends before the MaxRounds passes that are followed.
C12_FitTermination ==
    /\ [](fit_pc = "loop" => rounds < MaxRounds)
    /\ (fit_pc = "loop" ~> fit_pc \in {"returned", "failed"})

\* the loop has returned an encoding after four rounds that did not
C12_Witness ==
    /\ fit_pc = "returned"
    /\ fit_result.origin = "encoder"
    /\ rounds >= 5
    /\ target_width # <<0, 0>>
    /\ target_height # <<0, 0>>

\* C15: whatever resize_image returns is in the PNG format, whatever the
\* format of the input, also when the input is at most MAX_IMAGE_SIZE long.
C15_TargetEncoding ==
    fit_pc = "returned" => fit_result.format = "png"

\* C16: for a declared width and height of at least 1, the width and the
\* height of every resize are at least 1: the first guess, the rescale to
\* DIMENSION_LIMIT and the shrinks by 0.8 never give a target of 0.
C16_OnePixelFloor ==
    (original_width # <<0, 0>> /\ original_height # <<0, 0>>) =>
        \A d \in resized : d[1] # <<0, 0>> /\ d[2] # <<0, 0>>

(***************************************************************************)
(* send_illust, run and main: the claims about the pipeline (Spec).        *)
(***************************************************************************)
\* the errors send_media_group returns
SendErrors == {"generic", "retry after"}

\* C3: a task whose every send attempt failed ends only after
\* MAX_ATTEMPTS calls of send_media_group, and what it returns is the error
\* of the last of them; in particular when every error is a generic one.
C3_RetryExhaustion ==
    \A i \in Ids :
        /\ (task_result[i].tag = "Err" /\ task_result[i].error \in SendErrors) =>
               /\ sends[i] = MAX_ATTEMPTS
               /\ task_result[i].at = MAX_ATTEMPTS - 1
               /\ task_result[i] = result[i]
        /\ (sends[i] >= MAX_ATTEMPTS /\ delivered[i] = 0) =>
               /\ sends[i] = MAX_ATTEMPTS
               /\ task_pc[i] = "done"
               /\ task_result[i].tag = "Err"

\* a task has failed with the generic error of its tenth call
C3_Witness ==
    \E i \in Ids :
        /\ task_result[i] = Err("generic", MAX_ATTEMPTS - 1, 0)
        /\ sends[i] = MAX_ATTEMPTS

\* C4: once a call of send_media_group has succeeded the task has
\* returned Ok and that call was its last one: no task delivers its
\* record twice.
C4_SuccessStops ==
    \A i \in Ids :
        /\ delivered[i] <= 1
        /\ delivered[i] = 1 =>
               /\ task_pc[i] = "done"
               /\ task_result[i] = Ok
               /\ sends[i] = attempt[i] + 1

\* a task has succeeded at its third call
C4_Witness ==
    \E i \in Ids : delivered[i] = 1 /\ sends[i] = 3 /\ task_pc[i] = "done"

\* C5: the call that follows a rate-limit error comes after a sleep of
\* exactly the seconds the error carried, and a rate-limit error does not
\* use up one of the MAX_ATTEMPTS rounds.
C5_RateLimitWait ==
    [][\A i \in Ids :
          /\ (result[i].error = "retry after" /\ sends'[i] = sends[i] + 1) =>
                 waited'[i] = result[i].secs
          /\ (sends'[i] = sends[i] + 1 /\ result'[i].error = "retry after") =>
                 attempt'[i] = attempt[i]]_vars

\* C6: when the details of some ranked ids could not be fetched, run goes
\* on: at the exit every id whose details were fetched has had its
\* send_illust task spawned and run to its end.
C6_ResolutionIsolation ==
    (exited /\ pinned) =>
        \A i \in Ranked : details[i] = "ok" => task_pc[i] = "done"

\* C7: no send_illust task is spawned, and no media sent, before the date
\* message is sent and pinned; when either step fails run returns and no
\* task is ever spawned.
C7_AnnouncementBarrier ==
    /\ \A i \in Ids :
           (task_pc[i] # "unspawned" \/ sends[i] > 0) => (announced /\ pinned)
    /\ (run_result.tag = "Err" /\ run_result.error \in {"send date", "pin"}) =>
           \A i \in Ids : task_pc[i] = "unspawned" /\ sends[i] = 0

\* a task has called send_media_group
C7_Witness ==
    \E i \in Ids : sends[i] > 0 /\ pinned

\* C8: the exit status is not 0 exactly when the ranking fetch, the date
\* message or the pin failed; what fails for one record never changes it.
C8_ExitStatus ==
    exited =>
        (exit_status # 0 <=>
            (run_result.tag = "Err" /\
             run_result.error \in {"ranking", "send date", "pin"}))

\* the errors that return from send_illust before its first send
PrepareErrors == {"no url", "download", "parse", "resize"}

\* C9: what a task hands to send_media_group is the whole of the images
\* its record calls for, each downloaded and resized; a task that an error
\* or a panic ended while it collected them has called it never.
C9_AllOrNothing ==
    \A i \in Ids :
        /\ sends[i] > 0 =>
               /\ media[i] = Wanted(illust[i])
               /\ images[i] = Wanted(illust[i])
        /\ (task_result[i].tag = "Err" /\ task_result[i].error \in PrepareErrors) =>
               sends[i] = 0
        /\ task_result[i] = Panic => sends[i] = 0

\* a manga of more pages than a group holds failed in resize_image, and
\* nothing of it was sent
C9_Witness ==
    \E i \in Ids :
        /\ illust[i].manga
        /\ illust[i].pages > MAX_GROUP
        /\ task_result[i] = Err("resize", 0, 0)
        /\ sends[i] = 0

\* C13: every call of send_media_group hands over between 1 and MAX_GROUP
\* media items: the first min(n, MAX_GROUP) pages of a manga of n pages,
\* the one image of a record that is not a manga, and never 0 items, also
\* for a manga whose page list is empty.
C13_MediaCount ==
    \A i \in Ids :
        sends[i] > 0 =>
            /\ media[i] \in 1 .. MAX_GROUP
            /\ media[i] = (IF illust[i].manga
                           THEN Min(illust[i].pages, MAX_GROUP) ELSE 1)

\* C14: in what a call of send_media_group hands over exactly one item
\* carries the caption and the parse mode, and it is the first one.
C14_CaptionPlacement ==
    \A i \in Ids : sends[i] > 0 => captioned[i] = {1}

\* C17: the date message is sent only when every get_illust_details task
\* that was spawned has ended.
C17_ResolutionBarrier ==
    announced => \A i \in Ranked : details[i] # "running"

\* run got to the end of the loop that reads the send_illust tasks
Collected == run_pc = "returned" /\ run_result \in {Ok, Err("join", 0, 0)}

\* C18: when run has read the outcomes of the send_illust tasks, it has
\* logged the error of every task that returned one, whatever the tasks
\* before it in the ranking did.
C18_DiagnosticsComplete ==
    Collected => \A i \in Ranked : task_result[i].tag = "Err" => i \in reported

\* C19: at the exit of the process no send_illust task is cut short: every
\* task that was spawned has run to its own end.
C19_NoCancellation ==
    exited => \A i \in Ids : task_pc[i] \in {"unspawned", "done"}

\* C20: a task calls send_media_group at most MAX_ATTEMPTS times whatever
\* the errors are, every call that fails uses up one round of the loop
\* whatever its error, and a task that ended with all its images collected
\* has called it at least once.
C20_SendCount ==
    \A i \in Ids :
        /\ sends[i] <= MAX_ATTEMPTS
        /\ task_pc[i] = "send" => sends[i] = attempt[i]
        /\ (task_pc[i] = "done" /\ sends[i] > 0) => sends[i] = attempt[i] + 1
        /\ (task_pc[i] = "done" /\ task_result[i].tag # "Panic"
              /\ images[i] = Wanted(illust[i])) => sends[i] >= 1

\* a task ended at its last round on a rate-limit error, after a call that
\* another round had made
C20_Witness ==
    \E i \in Ids :
        /\ task_pc[i] = "done"
        /\ sends[i] = MAX_ATTEMPTS
        /\ task_result[i].error = "retry after"
        /\ images[i] = Wanted(illust[i])

\* C21: a task that failed before its first send (no url, a download
\* error, a width or height that does not parse, an error of resize_image)
\* has ended with that error as its own result and has called
\* send_media_group never; run does not return that error: it waits for
\* the other tasks, which reach their own ends, logs the error, and
\* returns Ok unless a task panicked.
C21_PrepareFailureIsolated ==
    \A i \in Ids :
        (task_result[i].tag = "Err" /\ task_result[i].error \in PrepareErrors) =>
            /\ task_pc[i] = "done"
            /\ sends[i] = 0
            /\ delivered[i] = 0
            /\ run_result.tag = "Err" => run_result.error \notin PrepareErrors
            /\ run_result = Err("join", 0, 0) =>
                   \E j \in Ranked \ {i} : task_result[j] = Panic
            /\ Collected =>
                   /\ \A j \in Ranked : task_pc[j] = "done"
                   /\ run_result = Ok => i \in reported
            /\ (exited /\ run_result = Ok) => exit_status = 0

\* a task failed on a declared width that does not parse, another one
\* delivered its record, and the process exited with status 0
C21_Witness ==
    \E i, j \in Ids :
        /\ task_result[i] = Err("parse", 0, 0)
        /\ task_result[j] = Ok
        /\ delivered[j] = 1
        /\ i \in reported
        /\ exited
        /\ exit_status = 0

====
